---- MODULE Spec2Model ----
(***************************************************************************)
(* State-machine model of src/duck-hunt.py: the Game object (level, score, *)
(* health, bullets, ducks, particles, hit counter, spawn timer, notice,    *)
(* FSM state, pause flag) driven by the events of main(): one update(dt)   *)
(* per un-paused frame, left clicks, the P key and the N key.  Each event  *)
(* is one atomic action; the events of one frame are handled before its    *)
(* update, so any number of clicks and keys may come between two ticks.    *)
(*                                                                         *)
(* Spec is the game with all four events.  SpecPlay is the game of a       *)
(* player who never presses the debug key N: levels are left only by       *)
(* landing the hits, at a frame time that keeps two ducks on screen at     *)
(* level 1.                                                                *)
(*                                                                         *)
(* Units.  Times are integer milliseconds, positions integer pixels,       *)
(* speeds of ducks integer hundredths of a pixel per second.  The frame    *)
(* times, speed jitter, wobble amplitude and period offered to the model   *)
(* are values the clock and the random source can return, chosen so that   *)
(* every product the code forms in floating point is a whole number here:  *)
(* x += vx * dt is exact and sin(age * 2 * pi / period) is -1, 0 or 1.     *)
(* With these frame times a duck crosses the screen in two or three ticks  *)
(* and a falling duck or a particle is gone after one.                     *)
(*                                                                         *)
(* Left out: clouds, colours, flap phase, spawn_time, particle size, sound *)
(* and drawing, which no gameplay field reads; QUIT and ESCAPE, which end  *)
(* the loop.                                                               *)
(***************************************************************************)
EXTENDS Integers, Sequences, FiniteSets, TLC

\* ------------------------------------------------------------ configuration
TOTAL_LEVELS == 10
HEALTH_PER_LEVEL == 5
DUCKS_TO_CLEAR == 10
BULLETS_AFTER_LEVEL_5 == 15
SCREEN_W == 1000
SCREEN_H == 640
DUCK_BASE_SPEED == 120
DUCK_W == 68
DUCK_H == 56

\* math.inf, the value of bullets at levels 1..5
INF == 1000000

\* ------------------------------------------------------------ bounds
\* Clicks that would lift the score above MaxScore are not explored.
MaxScore == 220
\* The same bound for play without the debug key.
MaxPlayScore == 1320

\* ------------------------------------------------------------ inputs
\* Frame times returned by clock.tick (ms): a stalled frame.
DtSet == {4500}
\* Mouse positions of the clicks.
ClickPts == {<<595, 300>>, <<676, 300>>, <<999, 300>>}
\* Frame times and mouse positions of play without the debug key.
PlayDts == {3500}
PlayClickPts == {<<445, 140>>, <<970, 140>>}
\* the click point of the runs checked for progress: where a duck of level 6
\* is after its first tick
LiveClickPts == {<<999, 300>>}
\* random.choice(['left', 'right']) and random.randint(110, SCREEN_H - 220)
SpawnDraws == {<<"left", 200>>, <<"left", 240>>, <<"right", 200>>}
\* 0.95 + random.random() * 0.35, in percent
Jitters == {125}
\* 18 + random.random() * 18 (px/s)
Amps == {20}
\* 1.0 + random.random() * 1.6 (ms)
Periods == {2000}
\* 80 + random.random() * 80 (px/s)
FallSpeeds == {100}
\* the sign drawn for the sideways drift of a falling duck
DriftSigns == {-1, 1}
\* random.uniform(0.5, 1.1) (ms)
ParticleLifes == {800}
\* random.uniform(-220, 220), random.uniform(-160, -40) (px/s)
ParticleVxs == {100}
ParticleVys == {-100}
PARTICLES_PER_HIT == 16

VARIABLES level, score, health, bullets, ducks, particles, hits_this_level,
          time_since_last_spawn, spawn_rate, paused, message, message_time,
          state

vars == <<level, score, health, bullets, ducks, particles, hits_this_level,
          time_since_last_spawn, spawn_rate, paused, message, message_time,
          state>>

\* ------------------------------------------------------------ helpers
Max(a, b) == IF a >= b THEN a ELSE b

Abs(a) == IF a >= 0 THEN a ELSE -a

isinf(b) == b = INF

\* f-strings of the notices that carry the level number
LevelStartMsg(l) == <<"Level", l, "Get", DUCKS_TO_CLEAR, "hits!">>
LevelCompleteMsg(l) == <<"Level", l, "complete!">>
LevelFailedMsg(l) == <<"Level", l, "failed.">>
MsgEscaped == <<"Duck escaped! -1 health">>
MsgNoBullets == <<"No bullets!">>
MsgHit == <<"Hit!">>
MsgMiss == <<"Miss!">>

\* SpawnRate that grows with the level
SpawnRate_rising(l) == Max(350, 1200 + (l - 1) * 80)

\* max(0.35, 1.2 - (level - 1) * 0.08), in ms
SpawnRate(l) == Max(350, 1200 - (l - 1) * 80)

\* LevelBullets with the threshold one level early
LevelBullets_from5(l) == IF l >= 5 THEN BULLETS_AFTER_LEVEL_5 ELSE INF

\* the bullet pool _setup_level gives level l
LevelBullets(l) == IF l > 5 THEN BULLETS_AFTER_LEVEL_5 ELSE INF

\* PoolEmpty that lets a shot through at 0
PoolEmpty_below0(b) == b < 0

\* shoot_at: "if self.bullets == 0", the depleted pool that rejects the shot
PoolEmpty(b) == b = 0

\* BulletsAfterShot that never consumes a bullet
BulletsAfterShot_free(b) == b

\* shoot_at: "if not math.isinf(self.bullets): self.bullets -= 1"
BulletsAfterShot(b) == IF ~isinf(b) THEN b - 1 ELSE b

\* HitScore without the level bonus
HitScore_flat(l) == 100

\* shoot_at: the score awarded for a hit at level l
HitScore(l) == 100 + l * 20

\* clamp((level - 1) * 0.06, 0, 0.45) > 0: random.random() < p can be true
BonusPossible(l) == (l - 1) * 6 > 0

\* ------------------------------------------------------------ Duck
\* Duck.__init__: vx = dir * DUCK_BASE_SPEED * (1 + (level-1)*0.12) * jitter
NewDuck(l, side, y0, jit, amp, period) ==
  [x |-> IF side = "left" THEN -80 ELSE SCREEN_W + 80,
   y |-> y0,
   vx |-> (IF side = "left" THEN 1 ELSE -1)
            * ((DUCK_BASE_SPEED * (100 + (l - 1) * 12) * jit) \div 100),
   amp |-> amp,
   period |-> period,
   age |-> 0,
   dead |-> FALSE,
   fall_speed |-> 0,
   hit_anim |-> 0]

\* sin(age * 2*pi / period) when the angle is a whole number of quarter turns
Sin4(age, period) ==
  LET q == ((age * 4) \div period) % 4
  IN  CASE q = 0 -> 0 [] q = 1 -> 1 [] q = 2 -> 0 [] OTHER -> -1

\* Duck.update(dt); sign is the drift direction drawn for a falling duck
DuckUpdate(d, dt, sign) ==
  IF d.dead
  THEN LET fs == d.fall_speed + (600 * dt) \div 1000
       IN  [d EXCEPT !.fall_speed = fs,
                     !.y = d.y + (fs * dt) \div 1000,
                     !.x = d.x + sign * ((60 * dt) \div 1000),
                     !.hit_anim = d.hit_anim + dt]
  ELSE LET a == d.age + dt
       IN  [d EXCEPT !.age = a,
                     !.y = d.y + (Sin4(a, d.period) * d.amp * dt) \div 1000,
                     !.x = d.x + (d.vx * dt) \div 100000]

\* hit_test with semi-axes 1.6 times the width and height
hit_test_wide(d, px, py) ==
  IF d.dead THEN FALSE
  ELSE LET dx == px - d.x
           dy == py - d.y
       IN  /\ Abs(dx) * 10 <= 16 * DUCK_W
           /\ Abs(dy) * 10 <= 16 * DUCK_H
           /\ 25 * (dx * dx * DUCK_H * DUCK_H + dy * dy * DUCK_W * DUCK_W)
                <= 64 * DUCK_W * DUCK_W * DUCK_H * DUCK_H

\* hit_test without the test of the dead flag
hit_test_dead_too(d, px, py) ==
  LET dx == px - d.x
      dy == py - d.y
  IN  /\ Abs(dx) * 10 <= 6 * DUCK_W
      /\ Abs(dy) * 10 <= 6 * DUCK_H
      /\ 100 * (dx * dx * DUCK_H * DUCK_H + dy * dy * DUCK_W * DUCK_W)
           <= 36 * DUCK_W * DUCK_W * DUCK_H * DUCK_H

\* Duck.hit_test: dx^2/rx^2 + dy^2/ry^2 <= 1 with rx = 0.6*width,
\* ry = 0.6*height, cleared of fractions; a point further than the bounding
\* box of the ellipse fails without the products being formed.
hit_test(d, px, py) ==
  IF d.dead THEN FALSE
  ELSE LET dx == px - d.x
           dy == py - d.y
       IN  /\ Abs(dx) * 10 <= 6 * DUCK_W
           /\ Abs(dy) * 10 <= 6 * DUCK_H
           /\ 100 * (dx * dx * DUCK_H * DUCK_H + dy * dy * DUCK_W * DUCK_W)
                <= 36 * DUCK_W * DUCK_W * DUCK_H * DUCK_H

\* ------------------------------------------------------------ Particle
NewParticle(x, y, vx, vy, life) ==
  [x |-> x, y |-> y, vx |-> vx, vy |-> vy, age |-> 0, life |-> life]

ParticleUpdate(p, dt) ==
  LET vy2 == p.vy + (600 * dt) \div 1000
  IN  [p EXCEPT !.age = p.age + dt,
                !.vy = vy2,
                !.x = p.x + (p.vx * dt) \div 1000,
                !.y = p.y + (vy2 * dt) \div 1000]

\* ------------------------------------------------------------ Game
\* Game.__init__ followed by _setup_level at level 1
Init ==
  /\ level = 1
  /\ score = 0
  /\ health = HEALTH_PER_LEVEL
  /\ hits_this_level = 0
  /\ ducks = <<>>
  /\ particles = <<>>
  /\ time_since_last_spawn = 0
  /\ bullets = LevelBullets(1)
  /\ spawn_rate = SpawnRate(1)
  /\ message = LevelStartMsg(1)
  /\ message_time = 2200
  /\ state = "playing"
  /\ paused = FALSE

\* _setup_level that forgets to clear the ducks
_setup_level_keep_ducks(l) ==
  /\ health' = HEALTH_PER_LEVEL
  /\ hits_this_level' = 0
  /\ ducks' = ducks
  /\ particles' = <<>>
  /\ time_since_last_spawn' = 0
  /\ bullets' = LevelBullets(l)
  /\ spawn_rate' = SpawnRate(l)
  /\ message' = LevelStartMsg(l)
  /\ message_time' = 2200
  /\ state' = "playing"

\* Game._setup_level, run with self.level = l
_setup_level(l) ==
  /\ health' = HEALTH_PER_LEVEL
  /\ hits_this_level' = 0
  /\ ducks' = <<>>
  /\ particles' = <<>>
  /\ time_since_last_spawn' = 0
  /\ bullets' = LevelBullets(l)
  /\ spawn_rate' = SpawnRate(l)
  /\ message' = LevelStartMsg(l)
  /\ message_time' = 2200
  /\ state' = "playing"

\* _on_level_failed that ends the attempt as a cleared level
_on_level_failed_as_cleared(g) ==
  [g EXCEPT !.message = LevelFailedMsg(level),
            !.message_time = 2500,
            !.state = IF level >= TOTAL_LEVELS THEN "victory" ELSE "level_end"]

\* Game._on_level_failed, on the fields the duck loop carries
_on_level_failed(g) ==
  [g EXCEPT !.message = LevelFailedMsg(level),
            !.message_time = 2500,
            !.state = "game_over"]

\* _on_level_cleared with > for >=
_on_level_cleared_gt(g) ==
  [g EXCEPT !.message = LevelCompleteMsg(level),
            !.message_time = 2500,
            !.state = IF level > TOTAL_LEVELS THEN "victory" ELSE "level_end"]

\* Game._on_level_cleared
_on_level_cleared(g) ==
  [g EXCEPT !.message = LevelCompleteMsg(level),
            !.message_time = 2500,
            !.state = IF level >= TOTAL_LEVELS THEN "victory" ELSE "level_end"]

\* The Duck objects spawn_duck can construct at level l
DuckChoices(l) ==
  {NewDuck(l, dr[1], dr[2], jit, amp, period) :
     dr \in SpawnDraws, jit \in Jitters, amp \in Amps, period \in Periods}

\* Game.update, spawn control: the ducks appended in this tick
SpawnChoices(l, spawnNow) ==
  IF ~spawnNow THEN {<<>>}
  ELSE {<<a>> : a \in DuckChoices(l)}
       \cup (IF BonusPossible(l)
             THEN {<<a, b>> : a \in DuckChoices(l), b \in DuckChoices(l)}
             ELSE {})

\* Escaped without the margin: the duck left the screen
Escaped_screen(d) == d.x < 0 \/ d.x > SCREEN_W

\* an alive duck that crossed the margin beyond either horizontal edge
Escaped(d) == d.x < -140 \/ d.x > SCREEN_W + 140

\* a falling duck past the ground, or falling for more than 3 s
FallDone(d) == d.y > SCREEN_H + 120 \/ d.hit_anim > 3000

\* DuckStep in which an escape costs no health
DuckStep_free_escape(g, d) ==
  IF ~d.dead
  THEN IF Escaped(d)
       THEN LET g1 == [g EXCEPT !.message = MsgEscaped,
                                !.message_time = 1600]
            IN  IF g1.health <= 0 THEN _on_level_failed(g1) ELSE g1
       ELSE [g EXCEPT !.ducks = Append(g.ducks, d)]
  ELSE IF FallDone(d)
       THEN g
       ELSE [g EXCEPT !.ducks = Append(g.ducks, d)]

\* Game.update, one pass of "for d in list(self.ducks)" for the duck d already
\* updated: g carries the fields the loop writes (ducks: the ducks kept so far)
DuckStep(g, d) ==
  IF ~d.dead
  THEN IF Escaped(d)
       THEN LET g1 == [g EXCEPT !.health = g.health - 1,
                                !.message = MsgEscaped,
                                !.message_time = 1600]
            IN  IF g1.health <= 0 THEN _on_level_failed(g1) ELSE g1
       ELSE [g EXCEPT !.ducks = Append(g.ducks, d)]
  ELSE IF FallDone(d)
       THEN g
       ELSE [g EXCEPT !.ducks = Append(g.ducks, d)]

\* Game.update, "for d in list(self.ducks)": the snapshot from index i on
RECURSIVE UpdateDucks(_, _, _, _, _)
UpdateDucks(snap, i, dt, drift, g) ==
  IF i > Len(snap) THEN g
  ELSE UpdateDucks(snap, i + 1, dt, drift,
         DuckStep(g, DuckUpdate(snap[i], dt,
                                IF snap[i].dead THEN drift[i] ELSE 1)))

\* Game.update, "for p in list(self.particles)"
RECURSIVE UpdateParticles(_, _, _)
UpdateParticles(ps, i, dt) ==
  IF i > Len(ps) THEN <<>>
  ELSE LET p == ParticleUpdate(ps[i], dt)
           rest == UpdateParticles(ps, i + 1, dt)
       IN  IF p.age > p.life THEN rest ELSE <<p>> \o rest

DeadIdx(snap) == {i \in 1..Len(snap) : snap[i].dead}

\* Game.update without the early return of the states other than playing
Tick_no_return(dt) ==
  /\ ~paused
  /\ LET t == time_since_last_spawn + dt
         spawnNow == t >= spawn_rate
     IN  \E sp \in SpawnChoices(level, spawnNow) :
           LET snap == ducks \o sp
           IN  \E drift \in [DeadIdx(snap) -> DriftSigns] :
               \E g1 \in {UpdateDucks(snap, 1, dt, drift,
                            [ducks |-> <<>>, health |-> health,
                             message |-> message,
                             message_time |-> message_time,
                             state |-> state])} :
               \E g2 \in {IF hits_this_level >= DUCKS_TO_CLEAR
                          THEN _on_level_cleared(g1) ELSE g1} :
                     /\ time_since_last_spawn' = IF spawnNow THEN 0 ELSE t
                     /\ ducks' = g2.ducks
                     /\ health' = g2.health
                     /\ message' = g2.message
                     /\ message_time' = g2.message_time
                     /\ state' = g2.state
                     /\ particles' = UpdateParticles(particles, 1, dt)
                     /\ UNCHANGED <<level, score, bullets, hits_this_level,
                                    spawn_rate, paused>>

\* Game.update(dt), called by main when the game is not paused
Tick(dt) ==
  /\ ~paused
  /\ IF state # "playing"
     THEN /\ message_time' = Max(0, message_time - dt)
          /\ UNCHANGED <<level, score, health, bullets, ducks, particles,
                         hits_this_level, time_since_last_spawn, spawn_rate,
                         paused, message, state>>
     ELSE LET t == time_since_last_spawn + dt
              spawnNow == t >= spawn_rate
          IN  \E sp \in SpawnChoices(level, spawnNow) :
                LET snap == ducks \o sp
                IN  \E drift \in [DeadIdx(snap) -> DriftSigns] :
                    \E g1 \in {UpdateDucks(snap, 1, dt, drift,
                                 [ducks |-> <<>>, health |-> health,
                                  message |-> message,
                                  message_time |-> message_time,
                                  state |-> state])} :
                    \E g2 \in {IF hits_this_level >= DUCKS_TO_CLEAR
                               THEN _on_level_cleared(g1) ELSE g1} :
                          /\ time_since_last_spawn' = IF spawnNow THEN 0 ELSE t
                          /\ ducks' = g2.ducks
                          /\ health' = g2.health
                          /\ message' = g2.message
                          /\ message_time' = g2.message_time
                          /\ state' = g2.state
                          /\ particles' = UpdateParticles(particles, 1, dt)
                          /\ UNCHANGED <<level, score, bullets, hits_this_level,
                                         spawn_rate, paused>>

\* squared distance from duck d to the shot point: orders as math.hypot does
Dist2(d, x, y) == (d.x - x) * (d.x - x) + (d.y - y) * (d.y - y)

\* sorted(self.ducks, key=hypot): the indices of ducks in the order the
\* stable sort yields, built by insertion of index i into the sorted prefix
RECURSIVE InsertByDist(_, _, _, _, _)
InsertByDist(order, i, ds, x, y) ==
  IF order = <<>> THEN <<i>>
  ELSE IF Dist2(ds[i], x, y) < Dist2(ds[order[Len(order)]], x, y)
       THEN Append(InsertByDist(SubSeq(order, 1, Len(order) - 1), i, ds, x, y),
                   order[Len(order)])
       ELSE Append(order, i)

\* SortedByDist that keeps the list order
SortedByDist_unsorted(ds, n, x, y) == [i \in 1..n |-> i]

RECURSIVE SortedByDist(_, _, _, _)
SortedByDist(ds, n, x, y) ==
  IF n = 0 THEN <<>>
  ELSE InsertByDist(SortedByDist(ds, n - 1, x, y), n, ds, x, y)

\* the first duck of the sorted order whose hit_test succeeds (0: none)
RECURSIVE FirstHit(_, _, _, _, _)
FirstHit(order, k, ds, x, y) ==
  IF k > Len(order) THEN 0
  ELSE IF hit_test(ds[order[k]], x, y) THEN order[k]
       ELSE FirstHit(order, k + 1, ds, x, y)

\* the duck shoot_at(x, y) kills: an index of ducks, or 0 for a miss
ShotTarget(ds, x, y) ==
  FirstHit(SortedByDist(ds, Len(ds), x, y), 1, ds, x, y)

\* the burst of particles appended on a hit at (x, y)
Burst(x, y, vx, vy, life) ==
  [k \in 1..PARTICLES_PER_HIT |-> NewParticle(x, y, vx, vy, life)]

\* Game.shoot_at(x, y)
shoot_at(x, y) ==
  IF state # "playing" THEN UNCHANGED vars
  ELSE IF PoolEmpty(bullets)
  THEN /\ message' = MsgNoBullets
       /\ message_time' = 1600
       /\ UNCHANGED <<level, score, health, bullets, ducks, particles,
                      hits_this_level, time_since_last_spawn, spawn_rate,
                      paused, state>>
  ELSE \E k \in {ShotTarget(ducks, x, y)} :
           /\ bullets' = BulletsAfterShot(bullets)
           /\ IF k # 0
              THEN /\ \E fs \in FallSpeeds, pvx \in ParticleVxs,
                         pvy \in ParticleVys, life \in ParticleLifes :
                        /\ ducks' = [ducks EXCEPT ![k].dead = TRUE,
                                                  ![k].fall_speed = fs]
                        /\ particles' = particles
                             \o Burst(ducks[k].x, ducks[k].y, pvx, pvy, life)
                   /\ score' = score + HitScore(level)
                   /\ hits_this_level' = hits_this_level + 1
                   /\ message' = MsgHit
                   /\ message_time' = 1200
              ELSE /\ message' = MsgMiss
                   /\ message_time' = 900
                   /\ UNCHANGED <<score, hits_this_level, ducks, particles>>
           /\ UNCHANGED <<level, health, time_since_last_spawn, spawn_rate,
                          paused, state>>

\* on_click whose victory restart keeps the level
Click_victory_keeps_level(x, y) ==
  CASE state = "playing" -> shoot_at(x, y)
    [] state = "level_end" ->
         IF level >= TOTAL_LEVELS
         THEN /\ state' = "victory"
              /\ UNCHANGED <<level, score, health, bullets, ducks, particles,
                             hits_this_level, time_since_last_spawn,
                             spawn_rate, paused, message, message_time>>
         ELSE /\ level' = level + 1
              /\ _setup_level(level + 1)
              /\ UNCHANGED <<score, paused>>
    [] state = "game_over" ->
         /\ _setup_level(level)
         /\ UNCHANGED <<level, score, paused>>
    [] state = "victory" ->
         /\ score' = 0
         /\ _setup_level(level)
         /\ UNCHANGED <<level, paused>>

\* on_click whose game_over retry also resets the score
Click_retry_zero(x, y) ==
  CASE state = "playing" -> shoot_at(x, y)
    [] state = "level_end" ->
         IF level >= TOTAL_LEVELS
         THEN /\ state' = "victory"
              /\ UNCHANGED <<level, score, health, bullets, ducks, particles,
                             hits_this_level, time_since_last_spawn,
                             spawn_rate, paused, message, message_time>>
         ELSE /\ level' = level + 1
              /\ _setup_level(level + 1)
              /\ UNCHANGED <<score, paused>>
    [] state = "game_over" ->
         /\ score' = 0
         /\ _setup_level(level)
         /\ UNCHANGED <<level, paused>>
    [] state = "victory" ->
         /\ level' = 1
         /\ score' = 0
         /\ _setup_level(1)
         /\ UNCHANGED paused

\* Game.on_click(x, y), called by main on a left MOUSEBUTTONDOWN
Click(x, y) ==
  CASE state = "playing" -> shoot_at(x, y)
    [] state = "level_end" ->
         IF level >= TOTAL_LEVELS
         THEN /\ state' = "victory"
              /\ UNCHANGED <<level, score, health, bullets, ducks, particles,
                             hits_this_level, time_since_last_spawn,
                             spawn_rate, paused, message, message_time>>
         ELSE /\ level' = level + 1
              /\ _setup_level(level + 1)
              /\ UNCHANGED <<score, paused>>
    [] state = "game_over" ->
         /\ _setup_level(level)
         /\ UNCHANGED <<level, score, paused>>
    [] state = "victory" ->
         /\ level' = 1
         /\ score' = 0
         /\ _setup_level(1)
         /\ UNCHANGED paused

\* main: K_p toggles game.paused
KeyP ==
  /\ paused' = ~paused
  /\ UNCHANGED <<level, score, health, bullets, ducks, particles,
                 hits_this_level, time_since_last_spawn, spawn_rate, message,
                 message_time, state>>

\* main: K_n, the debug key that completes the level
KeyN ==
  /\ hits_this_level' = IF state = "playing" THEN DUCKS_TO_CLEAR
                        ELSE hits_this_level
  /\ UNCHANGED <<level, score, health, bullets, ducks, particles,
                 time_since_last_spawn, spawn_rate, paused, message,
                 message_time, state>>

Next ==
  \/ \E dt \in DtSet : Tick(dt)
  \/ \E p \in ClickPts : Click(p[1], p[2]) /\ score' <= MaxScore
  \/ KeyP
  \/ KeyN

Spec == Init /\ [][Next]_vars

\* main without K_n: the events of a player who never uses the debug key
NextPlay ==
  \/ \E dt \in PlayDts : Tick(dt)
  \/ \E p \in PlayClickPts : Click(p[1], p[2]) /\ score' <= MaxPlayScore
  \/ KeyP

SpecPlay == Init /\ [][NextPlay]_vars

\* ------------------------------------------------------------ steps
\* A step of Game.update, of Game.on_click at one of the offered points
TickStep == \E dt \in DtSet : Tick(dt)

ClickStep == \E p \in ClickPts \cup PlayClickPts : Click(p[1], p[2])

\* A step of Game.update at a frame time of play without the debug key
PlayTickStep == \E dt \in PlayDts : Tick(dt)

\* main with the debug key K_n used only up to level 5 (above it a level is
\* completed by hits alone) and every click at one point
NextLive ==
  \/ \E dt \in DtSet : Tick(dt)
  \/ \E p \in LiveClickPts : Click(p[1], p[2]) /\ score' <= MaxScore
  \/ KeyP
  \/ KeyN /\ level <= 5

\* main calls game.update(dt) in every frame in which the game is not paused:
\* an update that stays possible is eventually run
SpecLive == Init /\ [][NextLive]_vars /\ WF_vars(TickStep)

\* Game.draw: the notice is rendered while message_time > 0 and the message
\* is not the empty string
MessageDrawn == message_time > 0 /\ message # <<>>

\* ------------------------------------------------------------ claims

\* C1: in every reachable state health is an integer with
\* 0 <= health <= HEALTH_PER_LEVEL; it never goes negative, also when several
\* live ducks cross the escape margin in the same tick.
C1_HealthInRange == health \in 0..HEALTH_PER_LEVEL

\* C2: in every reachable state hits_this_level <= DUCKS_TO_CLEAR: the hit
\* counter never exceeds the quota before the game leaves the playing state.
C2_HitsWithinQuota == hits_this_level <= DUCKS_TO_CLEAR

\* C3: a tick in the playing state in which health reaches 0 ends in
\* game_over, and game_over is left only by a click.
C3_FailedTickEndsGameOver ==
  [][/\ (state = "playing" /\ health > 0 /\ health' <= 0)
          => state' = "game_over"
     /\ (state = "game_over" /\ state' # "game_over") => ClickStep]_vars

\* C4: the first tick processed in the playing state once hits_this_level has
\* reached DUCKS_TO_CLEAR ends in level_end below the final level and in
\* victory at the final level; level_end is never entered at the final level
\* and victory never below it.
C4_ClearedTickTarget ==
  [][/\ \/ ~(state = "playing" /\ hits_this_level >= DUCKS_TO_CLEAR)
        \/ state' = IF level < TOTAL_LEVELS THEN "level_end" ELSE "victory"
        \/ ~TickStep
     /\ state' = "level_end" => level' < TOTAL_LEVELS
     /\ state' = "victory" => level' = TOTAL_LEVELS]_vars

\* C4 witness: the tick after the quota was met at the final level ended in
\* victory.
C4_Witness ==
  /\ state = "victory"
  /\ level = TOTAL_LEVELS
  /\ hits_this_level >= DUCKS_TO_CLEAR
  /\ message = LevelCompleteMsg(TOTAL_LEVELS)

\* a step into the playing state: the click that (re)starts a level
Restart == state # "playing" /\ state' = "playing"

\* (x, y) lies in the ellipse around duck d with semi-axes 0.6 * width and
\* 0.6 * height, boundary included
InHitEllipse(d, x, y) ==
  LET dx == Abs(x - d.x)
      dy == Abs(y - d.y)
  IN  /\ 5 * dx <= 3 * DUCK_W
      /\ 5 * dy <= 3 * DUCK_H
      /\ 25 * (dx * DUCK_H) * (dx * DUCK_H) + 25 * (dy * DUCK_W) * (dy * DUCK_W)
           <= 9 * (DUCK_W * DUCK_H) * (DUCK_W * DUCK_H)

\* the ducks an accepted shot at (x, y) may kill
Candidates(x, y) ==
  {i \in 1..Len(ducks) : ~ducks[i].dead /\ InHitEllipse(ducks[i], x, y)}

\* C5: above level 5 the pool is BULLETS_AFTER_LEVEL_5 on every (re)start,
\* every shot attempt in the playing state with a non-empty pool lowers it by
\* exactly 1, nothing else changes it, and it is never negative.
C5_FinitePool ==
  [][/\ (Restart /\ level' > 5) => bullets' = BULLETS_AFTER_LEVEL_5
     /\ level' > 5 => bullets' >= 0
     /\ \/ ~(state = "playing" /\ level > 5 /\ bullets > 0)
        \/ bullets' = bullets - 1
        \/ ~ClickStep
     /\ \/ ~(level > 5 /\ bullets' # bullets)
        \/ Restart
        \/ (state = "playing" /\ ClickStep)]_vars

\* C5 witness: above level 5 the pool is empty and the last accepted shot
\* was a hit (the duck it killed is still falling).
C5_Witness ==
  /\ level > 5
  /\ state = "playing"
  /\ bullets = 0
  /\ message = MsgHit
  /\ \E i \in 1..Len(ducks) : ducks[i].dead

\* C6: a shot in the playing state with the pool at 0 changes nothing but the
\* notice, which becomes 'No bullets!'.
C6_EmptyPoolRejects ==
  [][\/ ~(state = "playing" /\ bullets = 0)
     \/ /\ message' = MsgNoBullets
        /\ message_time' = 1600
        /\ UNCHANGED <<level, score, health, bullets, ducks, particles,
                       hits_this_level, time_since_last_spawn, spawn_rate,
                       paused, state>>
     \/ ~ClickStep]_vars

\* C6 witness: a shot was rejected although a live duck was under one of the
\* click points.
C6_Witness ==
  /\ state = "playing"
  /\ bullets = 0
  /\ message = MsgNoBullets
  /\ \E p \in ClickPts : Candidates(p[1], p[2]) # {}

\* C7: the pool is unlimited exactly at levels 1..5 and an integer in
\* 0..BULLETS_AFTER_LEVEL_5 above; at levels 1..5 no shot is rejected for lack
\* of bullets.
C7_PoolMatchesLevel ==
  /\ isinf(bullets) <=> level <= 5
  /\ level > 5 => bullets \in 0..BULLETS_AFTER_LEVEL_5
  /\ level <= 5 => message # MsgNoBullets

\* C7 witness: a shot was accepted at level 5 and the pool is still unlimited.
C7_Witness ==
  /\ level = 5
  /\ state = "playing"
  /\ message = MsgMiss
  /\ isinf(bullets)

\* C8: an accepted shot kills at most one duck, the nearest of the live ducks
\* whose hit ellipse contains the point, and exactly one when such a duck
\* exists; it changes no other duck.
C8_NearestDuckKilled ==
  [][\A p \in ClickPts :
       \/ ~(state = "playing" /\ bullets # 0)
       \/ /\ Len(ducks') = Len(ducks)
          /\ LET cand == Candidates(p[1], p[2])
                 killed == {i \in 1..Len(ducks) :
                              ~ducks[i].dead /\ ducks'[i].dead}
             IN  /\ Cardinality(killed) <= 1
                 /\ cand # {} => Cardinality(killed) = 1
                 /\ \A k \in killed :
                      /\ k \in cand
                      /\ \A i \in cand : Dist2(ducks[k], p[1], p[2])
                                           <= Dist2(ducks[i], p[1], p[2])
                 /\ \A i \in 1..Len(ducks) :
                      i \notin killed => ducks'[i] = ducks[i]
       \/ ~Click(p[1], p[2])]_vars

\* C8 witness: a shot has killed the nearer of two ducks whose ellipses both
\* contain the point, and the nearer one came later in the list.
C8_Witness ==
  /\ state = "playing"
  /\ message = MsgHit
  /\ \E p \in ClickPts : \E i, j \in 1..Len(ducks) :
       /\ j < i
       /\ ducks[i].dead /\ ~ducks[j].dead
       /\ InHitEllipse(ducks[i], p[1], p[2])
       /\ InHitEllipse(ducks[j], p[1], p[2])
       /\ Dist2(ducks[i], p[1], p[2]) < Dist2(ducks[j], p[1], p[2])

\* C9: an accepted shot whose point lies in the hit ellipse of no live duck
\* changes only the pool (minus 1 when finite) and the notice ('Miss!').
C9_MissOnlyConsumesBullet ==
  [][\A p \in ClickPts :
       \/ ~(state = "playing" /\ bullets # 0 /\ Candidates(p[1], p[2]) = {})
       \/ /\ bullets' = IF isinf(bullets) THEN bullets ELSE bullets - 1
          /\ message' = MsgMiss
          /\ message_time' = 900
          /\ UNCHANGED <<level, score, health, ducks, particles,
                         hits_this_level, time_since_last_spawn, spawn_rate,
                         paused, state>>
       \/ ~Click(p[1], p[2])]_vars

\* C9 witness: a shot missed with a finite pool while a live duck was in the
\* air.
C9_Witness ==
  /\ state = "playing"
  /\ message = MsgMiss
  /\ level > 5
  /\ bullets < BULLETS_AFTER_LEVEL_5
  /\ \E i \in 1..Len(ducks) : ~ducks[i].dead

C11_ScoreMonotone ==
  [][/\ \/ score' >= score
        \/ (state = "victory" /\ score' = 0 /\ ClickStep)
     /\ \/ score' = score
        \/ state = "victory"
        \/ /\ state = "playing"
           /\ ~PoolEmpty(bullets)
           /\ score' > score
           /\ message' = MsgHit
           /\ ClickStep
     /\ (state \in {"level_end", "game_over"}) => score' = score]_vars

\* C11 witness: level 1 was retried after a failed attempt in which a duck
\* was hit, and the points of that attempt are still there.
C11_Witness ==
  /\ level = 1
  /\ state = "playing"
  /\ message = LevelStartMsg(1)
  /\ hits_this_level = 0
  /\ score > 0

\* C12: in every reachable state 1 <= level <= TOTAL_LEVELS; level changes
\* only by a click in level_end (plus 1) and by a click in victory (to 1); a
\* click in game_over re-enters playing at the same level; no tick and no shot
\* changes level.
C12_LevelMoves ==
  /\ [](level \in 1..TOTAL_LEVELS)
  /\ [][/\ \/ level' = level
           \/ /\ \/ (state = "level_end" /\ level' = level + 1)
                 \/ (state = "victory" /\ level' = 1)
              /\ ClickStep
        /\ \/ state # "level_end"
           \/ level' = level + 1
           \/ ~ClickStep
        /\ \/ state # "victory"
           \/ level' = 1
           \/ ~ClickStep
        /\ \/ state # "game_over"
           \/ (level' = level /\ state' = "playing")
           \/ ~ClickStep
        /\ state = "playing" => level' = level]_vars

\* C12 witness: the final level is being played; it is entered only by the
\* click in level_end at the level before it (or by a retry of itself).
C12_Witness ==
  /\ level = TOTAL_LEVELS
  /\ state = "playing"
  /\ health < HEALTH_PER_LEVEL
  /\ message = MsgEscaped

\* C13: at every level L in 1..TOTAL_LEVELS the spawn interval set at level
\* start is max(0.35 s, 1.2 s - 0.08 s * (L - 1)); it is non-increasing in L
\* and never below the floor of 0.35 s.
C13_SpawnInterval ==
  /\ spawn_rate = (IF 1200 - 80 * (level - 1) > 350
                   THEN 1200 - 80 * (level - 1) ELSE 350)
  /\ spawn_rate >= 350
  /\ \A L \in 1..TOTAL_LEVELS :
       /\ SpawnRate(L) >= 350
       /\ L < TOTAL_LEVELS => SpawnRate(L + 1) <= SpawnRate(L)

\* C13 witness: the final level has just been set up; its interval is the
\* shortest of the game, 0.48 s, still above the floor.
C13_Witness ==
  /\ level = TOTAL_LEVELS
  /\ state = "playing"
  /\ spawn_rate = 480
  /\ hits_this_level = 0
  /\ health = HEALTH_PER_LEVEL
  /\ message = LevelStartMsg(TOTAL_LEVELS)

\* C14: notices are transient: after 'Miss!', 'Hit!', 'No bullets!' or
\* 'Duck escaped! -1 health' is raised in the playing state, if no further
\* notice is raised, its remaining display time reaches 0 after finitely many
\* ticks and it is no longer drawn. Here: a tick in playing that lasts at least
\* the remaining display time and raises no notice (no duck escapes in it, the
\* level neither fails nor is cleared) leaves no notice drawn.
C14_NoticeExpires ==
  [][\/ ~(/\ state = "playing"
          /\ message \in {MsgMiss, MsgHit, MsgNoBullets, MsgEscaped}
          /\ MessageDrawn
          /\ \A dt \in DtSet : dt >= message_time)
     \/ ~(health' = health /\ state' = "playing")
     \/ ~MessageDrawn'
     \/ ~TickStep]_vars

\* C15: a successful shot marks exactly the chosen duck dead, raises
\* hits_this_level by exactly 1 and score by exactly 100 + 20 * level, and
\* leaves health, level and the state unchanged.
C15_HitEffects ==
  [][\A p \in ClickPts :
       \/ ~(state = "playing" /\ bullets # 0 /\ Candidates(p[1], p[2]) # {})
       \/ /\ Len(ducks') = Len(ducks)
          /\ \E k \in Candidates(p[1], p[2]) :
               /\ ducks'[k].dead
               /\ \A i \in 1..Len(ducks) :
                    i # k => ducks'[i] = ducks[i]
          /\ hits_this_level' = hits_this_level + 1
          /\ score' = score + 100 + 20 * level
          /\ UNCHANGED <<health, level, state>>
       \/ ~Click(p[1], p[2])]_vars

\* C15 witness: the first duck of an attempt at level 6 has been hit: it is
\* falling, the counter is 1 and the score is the 220 points of that hit.
C15_Witness ==
  /\ state = "playing"
  /\ level = 6
  /\ message = MsgHit
  /\ hits_this_level = 1
  /\ score = 220
  /\ \E i \in 1..Len(ducks) : ducks[i].dead /\ ducks[i].hit_anim = 0

\* the x of duck d after Duck.update(dt) is beyond the escape margin
MovedOut(d, dt) ==
  LET x2 == DuckUpdate(d, dt, 1).x
  IN  x2 < -140 \/ x2 > SCREEN_W + 140

\* the ducks of the list snap that are alive
Alive(snap) == {i \in 1..Len(snap) : ~snap[i].dead}

\* what every step of Game.update leaves alone: it runs only when not paused,
\* keeps paused, the counter, the pool and the score, and raises none of the
\* notices of shoot_at
UpdateFrame ==
  /\ ~paused
  /\ UNCHANGED <<paused, hits_this_level, bullets, score, level>>
  /\ message' = message \/ message' \notin {MsgMiss, MsgHit, MsgNoBullets}

\* health falls by the number of live ducks (those on the list and those
\* spawned in the tick) that are beyond the margin after their move, and
\* these ducks are taken off the list
EscapesCharged ==
  \E dt \in DtSet :
    \E old \in {Cardinality({i \in Alive(ducks) : MovedOut(ducks[i], dt)})} :
    \E sp \in SpawnChoices(level, time_since_last_spawn + dt >= spawn_rate) :
    \E new \in {Cardinality({j \in 1..Len(sp) : MovedOut(sp[j], dt)})} :
      /\ health' = health - (old + new)
      /\ Cardinality(Alive(ducks'))
           = Cardinality(Alive(ducks)) + Len(sp) - (old + new)

\* C16: in a tick in the playing state each duck that is not dead and whose x
\* is below -140 or above SCREEN_W + 140 after its move is removed and lowers
\* health by exactly 1; a dead duck never lowers health, and nothing else
\* lowers health.
C16_EscapeCost ==
  [][/\ \/ health' >= health
        \/ (state = "playing" /\ UpdateFrame /\ EscapesCharged)
     /\ \A i \in Alive(ducks') :
          ~(ducks'[i].x < -140 \/ ducks'[i].x > SCREEN_W + 140)
     /\ \/ ~(state = "playing" /\ UpdateFrame)
        \/ UNCHANGED vars
        \/ EscapesCharged
        \/ ~TickStep]_vars

\* C16 witness: two live ducks escaped in the ticks of one attempt and each
\* cost one health point; the attempt goes on.
C16_Witness ==
  /\ state = "playing"
  /\ message = MsgEscaped
  /\ health = HEALTH_PER_LEVEL - 2

\* C17: while the game is paused no gameplay state changes: health,
\* hits_this_level, score, the bullet pool, the ducks and the state stay as
\* they were when the game was paused, whatever clicks arrive.
C17_PausedFrozen ==
  [][(paused /\ paused')
        => UNCHANGED <<health, hits_this_level, score, bullets, ducks,
                       state>>]_vars

\* C18: in level_end, game_over and victory a tick changes none of level,
\* score, health, hits_this_level, bullets, the ducks and the state; a click
\* there never fires a shot (no bullet consumed, no duck killed, no score
\* added); these states are left only by a click.
C18_IdleStates ==
  [][\/ state \notin {"level_end", "game_over", "victory"}
     \/ /\ \/ UNCHANGED <<level, score, health, hits_this_level, bullets,
                          ducks, state>>
           \/ ~TickStep
        /\ \/ state' = state
           \/ ClickStep
        /\ \/ /\ score' <= score
              /\ hits_this_level' <= hits_this_level
              /\ bullets' \in {bullets, LevelBullets(level')}
              /\ \A i \in 1..Len(ducks') :
                   ducks'[i].dead => (i <= Len(ducks) /\ ducks[i].dead)
              /\ message' \notin {MsgHit, MsgMiss, MsgNoBullets}
           \/ ~ClickStep]_vars

\* C18 witness: a tick has run in game_over (the notice of the failure has
\* timed out) and the ducks that were in the air are still on the list.
C18_Witness ==
  /\ state = "game_over"
  /\ message = LevelFailedMsg(level)
  /\ message_time = 0
  /\ \E i \in 1..Len(ducks) : ~ducks[i].dead

Doomed ==
  /\ state = "playing"
  /\ level > 5
  /\ bullets = 0
  /\ hits_this_level < DUCKS_TO_CLEAR

\* C20: above level 5 the shot that empties the pool does not end the attempt,
\* but once the pool is empty with the quota not met and the debug key is not
\* used, hits_this_level never increases again in that attempt, the attempt
\* is never left for level_end or victory, and if ticks keep being processed
\* it ends in game_over.
C20_EmptyPoolDooms ==
  /\ [][/\ (state = "playing" /\ bullets = 1 /\ bullets' = 0)
             => state' = "playing"
        /\ Doomed => /\ hits_this_level' <= hits_this_level
                     /\ state' \in {"playing", "game_over"}
                     /\ state' = "playing" => Doomed']_vars
  /\ ([]<><<TickStep>>_vars) => [](Doomed => <>(state = "game_over"))

\* C20 witness: an attempt above level 5 has ended in game_over with the pool
\* empty and the quota not met.
C20_Witness ==
  /\ state = "game_over"
  /\ level > 5
  /\ bullets = 0
  /\ hits_this_level < DUCKS_TO_CLEAR
  /\ health <= 0

\* the numbers of ducks Game.update may spawn in a tick of dt at this state
SpawnCounts(dt) ==
  {Len(sp) : sp \in SpawnChoices(level, time_since_last_spawn + dt
                                          >= spawn_rate)}

\* C21: each duck is counted at most once. A shot raises hits_this_level only
\* by turning a live duck dead (one duck per hit, with the score of one hit),
\* leaves every dead duck as it was, and at a point under dead ducks only adds
\* neither score nor hits; an update lowers health only by the number of live
\* ducks that left the list in it (a dead duck that leaves costs nothing, a
\* duck that escaped is off the list). So in an attempt the hits gained by
\* shots plus the health lost never exceed the ducks created.
C21_CountedOnce ==
  [][/\ \A p \in PlayClickPts :
          \/ state # "playing"
          \/ /\ Len(ducks') = Len(ducks)
             /\ hits_this_level' - hits_this_level
                  = Cardinality(Alive(ducks)) - Cardinality(Alive(ducks'))
             /\ hits_this_level' - hits_this_level \in {0, 1}
             /\ score' - score
                  = (100 + 20 * level) * (hits_this_level' - hits_this_level)
             /\ health' = health
             /\ \A i \in 1..Len(ducks) :
                  ducks[i].dead => ducks'[i] = ducks[i]
             /\ Candidates(p[1], p[2]) = {}
                  => UNCHANGED <<hits_this_level, score, ducks>>
          \/ ~Click(p[1], p[2])
     /\ \/ ~(state = "playing" /\ UpdateFrame)
        \/ UNCHANGED vars
        \/ /\ health' <= health
           /\ \E dt \in PlayDts : \E n \in SpawnCounts(dt) :
                (health - health') + Cardinality(Alive(ducks'))
                  = Cardinality(Alive(ducks)) + n
           /\ \A i \in 1..Len(ducks') :
                ducks'[i].dead => \E j \in 1..Len(ducks) : ducks[j].dead
        \/ ~PlayTickStep]_vars

\* C21 witness: after a hit, a shot was fired at a point inside the ellipse of
\* a duck already dead and still falling, and it was a miss: the counter
\* stands at the hits made before.
C21_Witness ==
  /\ state = "playing"
  /\ message = MsgMiss
  /\ hits_this_level = 2
  /\ score = 2 * HitScore(level)
  /\ \E i \in 1..Len(ducks) : \E p \in PlayClickPts :
       /\ ducks[i].dead
       /\ ducks[i].hit_anim = 0
       /\ InHitEllipse(ducks[i], p[1], p[2])

====
